---- MODULE Spec2Model ----
(***************************************************************************)
(* Model of isov.c: the 5-channel voltage-to-frequency measuring module.   *)
(* The falling-edge interrupt handler vcf_isr turns the time between two   *)
(* edges of a channel into a voltage; isov_misc_read renders the five      *)
(* voltages as text and serves a byte range of it; isov_misc_write refuses  *)
(* every write; isov_init and isov_exit acquire and release the misc       *)
(* device, the GPIO lines, the irq and the mapping of the counter.         *)
(*                                                                         *)
(* A u32 is kept as a pair <<hi, lo>> of 16-bit halves, so that arithmetic *)
(* mod 2^32 is exact.                                                      *)
(***************************************************************************)
EXTENDS Integers, Sequences, FiniteSets, TLC

\* ---------------------------------------------------------------- bounds
\* Operations in one run: invocations of the edge handler, calls of read and
\* of write and advances of the free-running counter, together.
MaxOps == 3

\* ------------------------------------------------- u32 arithmetic (mod 2^32)
HALF == 65536

U32Of(n) == <<n \div HALF, n % HALF>>

\* (mutant: the borrow out of the lower half dropped)
Sub32_NoBorrow(a, b) == <<(a[1] - b[1]) % HALF, (a[2] - b[2]) % HALF>>

\* a - b mod 2^32 (u32 subtraction of line 112)
Sub32(a, b) ==
    LET lo     == a[2] - b[2]
        borrow == IF lo < 0 THEN 1 ELSE 0
    IN  <<(a[1] - b[1] - borrow) % HALF, lo % HALF>>

\* a + b mod 2^32 (the counter wraps)
Add32(a, b) ==
    LET lo    == a[2] + b[2]
        carry == IF lo >= HALF THEN 1 ELSE 0
    IN  <<(a[1] + b[1] + carry) % HALF, lo % HALF>>

\* unsigned a < n, for a plain number n < 2^31
Lt32(a, n) == a[1] < 32768 /\ a[1] * HALF + a[2] < n

\* the number a u32 below 2^31 stands for
Num32(a) == a[1] * HALF + a[2]

ZERO32 == <<0, 0>>

\* The two 16-bit halves of a 32-bit int in two's complement, and the int of
\* two halves.
Hi16(v) == IF v >= 0 THEN v \div HALF ELSE (HALF - 1) - ((-v - 1) \div HALF)
Lo16(v) == IF v >= 0 THEN v % HALF ELSE (HALF - 1) - ((-v - 1) % HALF)
Int32Of(hi, lo) ==
    IF hi < 32768
    THEN hi * HALF + lo
    ELSE -(((HALF - 1) - hi) * HALF + ((HALF - 1) - lo)) - 1

\* ------------------------------------------------------------- the program
Channels == 0 .. 4

\* vcfGPIOSignals[i].gpio
GPIO_VCF == <<2, 22, 10, 5, 26>>
gpio(i) == GPIO_VCF[i + 1]

\* gpio_to_irq: the interrupt line of a GPIO pin (one line per pin)
IrqBase == 160
gpio_to_irq(g) == IrqBase + g

\* calib_coeficients[i]
CALIB == 7692308
calib_coeficients(i) == CALIB

\* "Accept result only if time between pulses is less than 1s"
VALID_PERIOD_MAX == 1000000

\* What the free-running 1 MHz counter reads when the module is loaded: 1,
\* or 0xFFFFFFF0, 16 ticks before it wraps to 0.
CounterStarts == {U32Of(1), <<65535, 65520>>}

\* By how much the counter may have advanced between two steps of the
\* program: by 32 ticks, by a millisecond, by exactly the second of
\* VALID_PERIOD_MAX, or by 1001 ticks less than a whole turn.
Deltas == {U32Of(32), U32Of(1000), U32Of(1000000), <<65535, 64535>>}

VARIABLES
    counter,          \* the value ioread32(timer) returns now
    vcf_irqs,         \* vcf_irqs[i]: irq number of channel i, or -1
    requested,        \* irq numbers for which request_irq succeeded
    last_pulse_time,  \* last_pulse_time[i]
    voltages,         \* voltages[i]
    time_diff,        \* vcf_isr's static time_diff, one for all invocations
    isr_pc,           \* isr_pc[i]: where the handler invoked for channel i's irq is
    isr_cur,          \* the running invocation on channel i: what it read and found
    isr_log,          \* isr_log[i]: the completed invocations of channel i, in order
    div0,             \* a division by zero has been executed
    nOps,             \* operations begun so far
    lp64,             \* the build: TRUE where long is 64 bits wide, FALSE where 32
    offset,           \* the caller's cursor, the loff_t that read's offset points to
    txt_buffer,       \* isov_misc_read's static txt_buffer[256]
    rd,               \* the last call of read
    rd_prev,          \* the call before it
    session,          \* the text last rendered by a call at offset 0
    wr,               \* the calls of write so far and what the last one returned
    life_pc,          \* where isov_init / isov_exit is
    init_ret,         \* what isov_init returned
    misc_registered,  \* isov_misc_device is registered
    gpio_held,        \* the channels whose GPIO line is held
    timer,            \* the pointer timer: "null", "mapped" or "unmapped"
    stray,            \* releases issued for what was not held, in order
    oops              \* vcf_isr has read through timer while it was not mapped

isrVars == <<last_pulse_time, voltages, time_diff, isr_pc, isr_cur, isr_log,
             div0>>
lifeVars == <<life_pc, init_ret, misc_registered, gpio_held, timer, stray, oops>>
cfgVars == <<vcf_irqs, requested, lp64, lifeVars>>
rdVars  == <<offset, txt_buffer, rd, rd_prev, session, wr>>

vars == <<counter, vcf_irqs, requested, last_pulse_time, voltages, time_diff,
          isr_pc, isr_cur, isr_log, div0, nOps,
          lp64, offset, txt_buffer, rd, rd_prev, session, wr,
          life_pc, init_ret, misc_registered, gpio_held, timer, stray, oops>>

\* What is recorded of one invocation of vcf_isr for a channel:
\*   t1, t2  the counter as read at line 112 and at line 115
\*   lpt0    last_pulse_time[i] as line 112 read it
\*   v0      voltages[i] when the invocation began
\*   own     the period this invocation computed at line 112
\*   used    the value of time_diff that line 119 divided by
\*   nv      the value line 119 computed
\*   pub     line 119 ran
NoCur == [t1 |-> ZERO32, t2 |-> ZERO32, lpt0 |-> ZERO32, v0 |-> 0,
          own |-> ZERO32, used |-> ZERO32, nv |-> 0, pub |-> FALSE]

InitIsr ==
    /\ counter \in CounterStarts
    /\ last_pulse_time = [i \in Channels |-> ZERO32]
    /\ voltages = [i \in Channels |-> 0]
    /\ time_diff = ZERO32
    /\ isr_pc = [i \in Channels |-> "idle"]
    /\ isr_cur = [i \in Channels |-> NoCur]
    /\ isr_log = [i \in Channels |-> <<>>]
    /\ div0 = FALSE
    /\ nOps = 0

\* (mutant: the loops of lines 195 and 213 over all five channels)
InitIrqs_AllRequested ==
    /\ vcf_irqs = [i \in Channels |-> gpio_to_irq(gpio(i))]
    /\ requested = {gpio_to_irq(gpio(i)) : i \in Channels}

\* isov_init as the source has it (lines 196-197, 214-215): only channel 0's
\* irq is looked up and requested; vcf_irqs[1..4] keep their initial -1.
InitIrqs ==
    /\ vcf_irqs = [i \in Channels |-> IF i = 0 THEN gpio_to_irq(gpio(0)) ELSE -1]
    /\ requested = {gpio_to_irq(gpio(0))}

\* The loops of lines 195 and 213 completed: every channel's irq is looked up
\* and requested.
InitIrqsWired ==
    /\ vcf_irqs = [i \in Channels |-> gpio_to_irq(gpio(i))]
    /\ requested = {gpio_to_irq(gpio(i)) : i \in Channels}

\* ---------------------------------------------------------------- vcf_isr
\* (mutant: the operands of the subtraction exchanged)
PeriodOf_Swapped(now, last) == Sub32(last, now)

\* line 112: the period from the last pulse to now
PeriodOf(now, last) == Sub32(now, last)

\* (mutant: a period of exactly one second accepted)
Accepts_Inclusive(d) == Lt32(d, VALID_PERIOD_MAX + 1)

\* line 118: the validity test
Accepts(d) == Lt32(d, VALID_PERIOD_MAX)

\* line 119: calib_coeficients[i] / time_diff for a nonzero divisor (an
\* unsigned division: a divisor above the dividend gives 0)
Quotient(i, d) ==
    IF Lt32(d, calib_coeficients(i) + 1)
    THEN calib_coeficients(i) \div Num32(d)
    ELSE 0

\* What a division by zero may leave in voltages[i]: the operation is undefined.
DivZeroResults == {0, -1}

\* the values line 119 may compute from the divisor d
Computed(i, d) == IF d = ZERO32 THEN DivZeroResults ELSE {Quotient(i, d)}

\* A falling edge on a requested irq line invokes vcf_isr(irq), which handles
\* the channel i with vcf_irqs[i] = irq.  Line 112.
IsrDiff(i) ==
    /\ vcf_irqs[i] \in requested
    /\ isr_pc[i] = "idle"
    /\ nOps < MaxOps
    /\ nOps' = nOps + 1
    /\ time_diff' = PeriodOf(counter, last_pulse_time[i])
    /\ isr_cur' = [isr_cur EXCEPT ![i] =
                     [NoCur EXCEPT !.t1 = counter,
                                   !.lpt0 = last_pulse_time[i],
                                   !.v0 = voltages[i],
                                   !.own = PeriodOf(counter, last_pulse_time[i])]]
    /\ isr_pc' = [isr_pc EXCEPT ![i] = "save"]
    /\ UNCHANGED <<last_pulse_time, voltages, isr_log, div0>>

\* (mutant: line 115 reads the counter and does not store it)
IsrSave_Skipped(i) ==
    /\ isr_pc[i] = "save"
    /\ isr_cur' = [isr_cur EXCEPT ![i].t2 = counter]
    /\ isr_pc' = [isr_pc EXCEPT ![i] = "test"]
    /\ UNCHANGED <<last_pulse_time, voltages, time_diff, isr_log, div0, nOps>>

\* Line 115: the counter is read a second time.
IsrSave(i) ==
    /\ isr_pc[i] = "save"
    /\ last_pulse_time' = [last_pulse_time EXCEPT ![i] = counter]
    /\ isr_cur' = [isr_cur EXCEPT ![i].t2 = counter]
    /\ isr_pc' = [isr_pc EXCEPT ![i] = "test"]
    /\ UNCHANGED <<voltages, time_diff, isr_log, div0, nOps>>

\* The invocation on channel i returns.
IsrReturn(i) ==
    /\ isr_log' = [isr_log EXCEPT ![i] = Append(@, isr_cur'[i])]
    /\ isr_pc' = [isr_pc EXCEPT ![i] = "idle"]

\* Line 118.
IsrTest(i) ==
    /\ isr_pc[i] = "test"
    /\ \/ /\ Accepts(time_diff)
          /\ isr_pc' = [isr_pc EXCEPT ![i] = "div"]
          /\ UNCHANGED <<isr_cur, isr_log>>
       \/ /\ ~Accepts(time_diff)
          /\ isr_cur' = isr_cur
          /\ IsrReturn(i)
    /\ UNCHANGED <<last_pulse_time, voltages, time_diff, div0, nOps>>

\* Line 119, the store done as one 32-bit store.
IsrPublish(i) ==
    /\ isr_pc[i] = "div"
    /\ \E v \in Computed(i, time_diff) :
          /\ voltages' = [voltages EXCEPT ![i] = v]
          /\ isr_cur' = [isr_cur EXCEPT ![i].used = time_diff, ![i].nv = v,
                                        ![i].pub = TRUE]
    /\ div0' = (div0 \/ time_diff = ZERO32)
    /\ IsrReturn(i)
    /\ UNCHANGED <<last_pulse_time, time_diff, nOps>>

\* Line 119 again.  voltages[i] is a plain int, stored here and loaded at
\* line 152 with nothing ordering the two: the store may reach memory as two
\* halves.  This is the first half.
IsrPublishLo(i) ==
    /\ isr_pc[i] = "div"
    /\ \E v \in Computed(i, time_diff) :
          /\ voltages' = [voltages EXCEPT ![i] = Int32Of(Hi16(@), Lo16(v))]
          /\ isr_cur' = [isr_cur EXCEPT ![i].used = time_diff, ![i].nv = v,
                                        ![i].pub = TRUE]
    /\ div0' = (div0 \/ time_diff = ZERO32)
    /\ isr_pc' = [isr_pc EXCEPT ![i] = "hi"]
    /\ UNCHANGED <<last_pulse_time, time_diff, isr_log, nOps>>

\* The second half of the store of line 119.
IsrPublishHi(i) ==
    /\ isr_pc[i] = "hi"
    /\ voltages' = [voltages EXCEPT ![i] = isr_cur[i].nv]
    /\ isr_cur' = isr_cur
    /\ IsrReturn(i)
    /\ UNCHANGED <<last_pulse_time, time_diff, div0, nOps>>

vcf_isr(i) ==
    /\ \/ IsrDiff(i)
       \/ IsrSave(i)
       \/ IsrTest(i)
       \/ IsrPublish(i)
       \/ IsrPublishLo(i)
       \/ IsrPublishHi(i)
    /\ UNCHANGED <<counter, cfgVars, rdVars>>

\* The free-running counter advances.
Tick ==
    /\ nOps < MaxOps
    /\ nOps' = nOps + 1
    /\ \E d \in Deltas : counter' = Add32(counter, d)
    /\ UNCHANGED <<isrVars, cfgVars, rdVars>>

\* --------------------------------------------------------- isov_misc_read
BUF_SIZE == 256
ENODATA == 61
EFAULT == 14

\* What a byte read from beyond txt_buffer is: not known.
UNKNOWN_BYTE == -1

\* The offsets and the counts read is called with.
Offsets == {0, 5, 27, 28}
Counts == {5, 256}

\* "%d": the decimal digits of an int, as character codes
RECURSIVE Digits(_)
Digits(n) == IF n < 10 THEN <<48 + n>> ELSE Digits(n \div 10) \o <<48 + (n % 10)>>
Dec(n) == IF n < 0 THEN <<45>> \o Digits(-n) ELSE Digits(n)

\* "Vk=%d " for the k-th value of vals
RECURSIVE Fields(_, _)
Fields(vals, k) ==
    IF k > Len(vals) THEN <<>>
    ELSE <<86, 48 + k, 61>> \o Dec(vals[k]) \o <<32>> \o Fields(vals, k + 1)

\* line 152: "V1=%d V2=%d V3=%d V4=%d V5=%d \n" of the five loaded values
Format(vals) == Fields(vals, 1) \o <<10>>

\* txt_buffer is kept as its bytes up to the last one ever written; the
\* bytes after them are the zeros the static array starts with.
ByteOf(buf, k) == IF k <= Len(buf) THEN buf[k] ELSE 0

\* snprintf(buf, 256, ...): at most 255 characters and a 0 after them are
\* written, the rest of buf is left as it was; it returns Len(text).
snprintf(buf, text) ==
    LET w == IF Len(text) < BUF_SIZE THEN Len(text) ELSE BUF_SIZE - 1
        m == IF Len(buf) > w + 1 THEN Len(buf) ELSE w + 1
    IN  [k \in 1 .. m |->
            IF k <= w THEN text[k] ELSE IF k = w + 1 THEN 0 ELSE buf[k]]

\* Sizes are kept as integers: a negative x stands for the unsigned 2^w + x
\* that a size_t of w bits holds after the subtraction wrapped.
UGt(x, y) == IF (x < 0) = (y < 0) THEN x > y ELSE x < 0

\* (mutant: the test of line 150 made strict)
NothingBuffered_Strict(txt_len, off) ==
    IF lp64 THEN FALSE ELSE txt_len - off < 0

\* line 150: txt_len - *offset <= 0.  size_t and loff_t (long long): with a
\* 32-bit size_t the difference is a signed long long, with a 64-bit size_t
\* it is unsigned and so <= 0 only when it is 0.
NothingBuffered(txt_len, off) ==
    IF lp64 THEN txt_len - off = 0 ELSE txt_len - off <= 0

\* line 159: len = (txt_len - *offset > count) ? count : txt_len - *offset,
\* the comparison signed (32-bit size_t) or unsigned (64-bit size_t), and
\* the result stored into the size_t len.
LenOf(txt_len, off, count) ==
    LET d == txt_len - off IN
    IF lp64
    THEN IF UGt(d, count) THEN count ELSE d
    ELSE IF d > count THEN count ELSE d

\* line 168: the number of bytes copy_to_user is asked for, len + 1 as a size_t
CopySize(len) == len + 1

\* txt_buffer + off, n bytes of it; beyond the array the bytes are not known
BytesAt(buf, off, n) ==
    [k \in 1 .. n |->
        IF off + k <= BUF_SIZE THEN ByteOf(buf, off + k) ELSE UNKNOWN_BYTE]

\* What is recorded of one call of isov_misc_read:
\*   off, count  *offset and count as the call found them
\*   cur0        the cursor as the previous call left it
\*   rendered    line 152 ran; vals are the five voltages it loaded and text
\*               the characters it formatted
\*   txt_len     txt_len at line 159
\*   ret, out    the value returned and the bytes copied to the caller's buf
\*   v0          voltages[0..4] at the call
\*   busy0       the channels whose edge handler was running at the call
\*   n0          per channel, the handler invocations completed before the call
NoCall == [off |-> 0, count |-> 0, cur0 |-> 0, rendered |-> FALSE,
           vals |-> <<>>, text |-> <<>>, txt_len |-> 0, ret |-> 0,
           out |-> <<>>, v0 |-> <<>>, busy0 |-> {}, n0 |-> <<>>]

InitRead ==
    /\ lp64 \in BOOLEAN
    /\ offset = 0
    /\ txt_buffer = <<>>
    /\ rd = NoCall
    /\ rd_prev = NoCall
    /\ session = <<>>
    /\ wr = [n |-> 0, ret |-> 0]

\* lines 159-174: what the call returns and what it copies to the caller's
\* buf, a pair <<ret, out>>.  A copy of more bytes than the address space
\* holds is refused by copy_to_user.
Served(buf, txt_len, off, count) ==
    LET len == LenOf(txt_len, off, count)
        n   == CopySize(len)
    IN  IF len = 0 THEN <<-ENODATA, <<>> >>
        ELSE IF n < 0 THEN <<-EFAULT, <<>> >>
        ELSE <<len, BytesAt(buf, off, n)>>

\* line 152: the arguments voltages[0] .. voltages[4]
Loaded(v) == [k \in 1 .. 5 |-> v[k - 1]]

\* isov_misc_read, lines 145-175, called with *offset = o and count = c.  The
\* five loads of line 152 are taken in one step.  *offset is not written:
\* the cursor is left where the call found it.
isov_misc_read(o, c) ==
    /\ offset' = o
    /\ rd_prev' = rd
    /\ LET render  == NothingBuffered(0, o)
           vals    == Loaded(voltages)
           text    == Format(vals)
           buf     == IF render THEN snprintf(txt_buffer, text) ELSE txt_buffer
           txt_len == IF render THEN Len(text) + 1 ELSE 0
       IN  /\ txt_buffer' = buf
           /\ session' = IF render /\ o = 0 THEN text \o <<0>> ELSE session
           /\ LET s == Served(buf, txt_len, o, c) IN
                 rd' = [off |-> o, count |-> c, cur0 |-> offset,
                        rendered |-> render,
                        vals |-> IF render THEN vals ELSE <<>>,
                        text |-> IF render THEN text ELSE <<>>,
                        txt_len |-> txt_len, ret |-> s[1], out |-> s[2],
                        v0 |-> vals,
                        busy0 |-> {i \in Channels : isr_pc[i] # "idle"},
                        n0 |-> [k \in 1 .. 5 |-> Len(isr_log[k - 1])]]
    /\ UNCHANGED <<counter, isrVars, cfgVars, wr>>

\* read(fd, buf, c) with the caller's cursor at o.
read(o, c) ==
    /\ nOps < MaxOps
    /\ nOps' = nOps + 1
    /\ isov_misc_read(o, c)

\* A caller's read loop: each call is made at the cursor the call before it
\* left, with any count, for as long as no call has returned 0.
ReaderLoop ==
    /\ ~(rd.v0 # <<>> /\ rd.ret = 0)
    /\ \E c \in Counts : isov_misc_read(offset, c)
    /\ UNCHANGED nOps

\* -------------------------------------------------------- isov_misc_write
EINVAL == 22

\* (mutant: the write accepted, its count returned)
WriteReturn_Accepted(c) == c

\* line 141: return -EINVAL
WriteReturn(c) == -EINVAL

\* isov_misc_write, lines 140-142, called with count = c: nothing but the
\* return.  *offset is not written.
isov_misc_write(c) ==
    /\ wr' = [n |-> wr.n + 1, ret |-> WriteReturn(c)]
    /\ UNCHANGED <<offset, txt_buffer, rd, rd_prev, session>>
    /\ UNCHANGED <<counter, isrVars, cfgVars>>

\* write(fd, buf, c)
write(c) ==
    /\ nOps < MaxOps
    /\ nOps' = nOps + 1
    /\ isov_misc_write(c)


\* ------------------------------------------------- isov_init and isov_exit
ENODEV == 19

\* what the lifecycle functions leave alone
envVars == <<counter, isrVars, nOps, rdVars, lp64, oops>>

\* Before isov_init: the initialisers of lines 69 and 76, nothing acquired.
InitUnloaded ==
    /\ life_pc = "insmod"
    /\ init_ret = <<>>
    /\ misc_registered = FALSE
    /\ gpio_held = {}
    /\ timer = "null"
    /\ stray = <<>>
    /\ oops = FALSE
    /\ vcf_irqs = [i \in Channels |-> -1]
    /\ requested = {}

\* After an isov_init in which every acquisition succeeded.
InitLoaded ==
    /\ life_pc = "loaded"
    /\ init_ret = <<0>>
    /\ misc_registered = TRUE
    /\ gpio_held = Channels
    /\ timer = "mapped"
    /\ stray = <<>>
    /\ oops = FALSE

\* A release issued for something that is not held.
Stray(op, arg) == [op |-> op, arg |-> arg]

\* free_irq(q[1]), free_irq(q[2]), ... in turn, from the requested irqs req
\* and the stray releases str: the pair of the two afterwards.  An irq that
\* is requested is freed; for any other number the call is a stray release.
RECURSIVE free_irqs(_, _, _)
free_irqs(q, req, str) ==
    IF q = <<>> THEN <<req, str>>
    ELSE IF Head(q) \in req
         THEN free_irqs(Tail(q), req \ {Head(q)}, str)
         ELSE free_irqs(Tail(q), req, Append(str, Stray("free_irq", Head(q))))

\* vcf_irqs[0], ..., vcf_irqs[4]: what the loops of lines 216 and 242 pass to
\* free_irq
AllIrqSlots == [k \in 1 .. 5 |-> vcf_irqs[k - 1]]

\* gpio_free_array(vcfGPIOSignals, 5): the stray releases afterwards
gpio_free_array(str) ==
    IF gpio_held = Channels THEN str ELSE Append(str, Stray("gpio_free_array", 0))

\* iounmap(timer): the pair <<timer, stray releases>> afterwards
iounmap(str) ==
    IF timer = "mapped" THEN <<"unmapped", str>>
    ELSE <<timer, Append(str, Stray("iounmap", 0))>>

\* Line 184: misc_register, which may fail; its result is not looked at.
InitMiscRegister ==
    /\ life_pc = "insmod"
    /\ misc_registered' \in BOOLEAN
    /\ life_pc' = "gpio"
    /\ UNCHANGED <<init_ret, gpio_held, timer, stray, vcf_irqs, requested>>

\* Lines 187-190: gpio_request_array, which holds all five lines or, failing,
\* none of them.
InitGpioRequest ==
    /\ life_pc = "gpio"
    /\ \/ /\ gpio_held' = Channels
          /\ life_pc' = "lookup"
          /\ UNCHANGED <<init_ret, stray>>
       \/ /\ gpio_held' = {}
          /\ stray' = gpio_free_array(stray)
          /\ init_ret' = <<-ENODEV>>
          /\ life_pc' = "failed"
    /\ UNCHANGED <<misc_registered, timer, vcf_irqs, requested>>

\* Lines 196-206, i = 0: gpio_to_irq gives the irq of the line or an error;
\* on an error the loop of line 200 starts at i - 1 = -1 and frees nothing.
InitIrqLookup ==
    /\ life_pc = "lookup"
    /\ \E r \in {gpio_to_irq(gpio(0)), -EINVAL} :
          /\ vcf_irqs' = [vcf_irqs EXCEPT ![0] = r]
          /\ IF r < 0
             THEN /\ stray' = gpio_free_array(stray)
                  /\ gpio_held' = {}
                  /\ init_ret' = <<-ENODEV>>
                  /\ life_pc' = "failed"
             ELSE /\ life_pc' = "map"
                  /\ UNCHANGED <<stray, gpio_held, init_ret>>
    /\ UNCHANGED <<misc_registered, timer, requested>>

\* Line 209: ioremap, which may return NULL; the result is not looked at.
InitMapTimer ==
    /\ life_pc = "map"
    /\ timer' \in {"mapped", "null"}
    /\ life_pc' = "request"
    /\ UNCHANGED <<init_ret, misc_registered, gpio_held, stray, vcf_irqs, requested>>

\* Lines 212-229, i = 0: request_irq succeeds and isov_init returns 0, or it
\* fails and lines 216-221 run.
InitRequestIrq ==
    /\ life_pc = "request"
    /\ \/ /\ requested' = requested \cup {vcf_irqs[0]}
          /\ init_ret' = <<0>>
          /\ life_pc' = "loaded"
          /\ UNCHANGED <<gpio_held, timer, stray>>
       \/ LET f == free_irqs(AllIrqSlots, requested, stray)
              u == iounmap(gpio_free_array(f[2]))
          IN  /\ requested' = f[1]
              /\ gpio_held' = {}
              /\ timer' = u[1]
              /\ stray' = u[2]
              /\ init_ret' = <<-ENODEV>>
              /\ life_pc' = "failed"
    /\ UNCHANGED <<misc_registered, vcf_irqs>>

isov_init ==
    /\ \/ InitMiscRegister
       \/ InitGpioRequest
       \/ InitIrqLookup
       \/ InitMapTimer
       \/ InitRequestIrq
    /\ UNCHANGED envVars

\* Lines 237-239: if (timer) iounmap(timer).
ExitUnmap ==
    /\ life_pc = "loaded"
    /\ IF timer # "null"
       THEN /\ timer' = iounmap(stray)[1]
            /\ stray' = iounmap(stray)[2]
       ELSE UNCHANGED <<timer, stray>>
    /\ life_pc' = "exit_irqs"
    /\ UNCHANGED <<init_ret, misc_registered, gpio_held, vcf_irqs, requested>>

\* Lines 242-244: free_irq for each of the five slots.  free_irq waits for a
\* running handler of the irq to return.
ExitFreeIrqs ==
    /\ life_pc = "exit_irqs"
    /\ \A i \in Channels : vcf_irqs[i] \in requested => isr_pc[i] = "idle"
    /\ requested' = free_irqs(AllIrqSlots, requested, stray)[1]
    /\ stray' = free_irqs(AllIrqSlots, requested, stray)[2]
    /\ life_pc' = "exit_gpio"
    /\ UNCHANGED <<init_ret, misc_registered, gpio_held, timer, vcf_irqs>>

\* Lines 247-250: gpio_free_array and misc_deregister.
ExitRelease ==
    /\ life_pc = "exit_gpio"
    /\ gpio_held' = {}
    /\ misc_registered' = FALSE
    /\ stray' = IF misc_registered THEN gpio_free_array(stray)
                ELSE Append(gpio_free_array(stray), Stray("misc_deregister", 0))
    /\ life_pc' = "removed"
    /\ UNCHANGED <<init_ret, timer, vcf_irqs, requested>>

isov_exit ==
    /\ \/ ExitUnmap
       \/ ExitFreeIrqs
       \/ ExitRelease
    /\ UNCHANGED envVars

\* A falling edge while the module is being loaded or removed.  Lines 112 and
\* 115 read through timer: with timer not mapped the read faults.
Edge(i) ==
    \/ /\ timer = "mapped" \/ isr_pc[i] \notin {"idle", "save"}
       /\ vcf_isr(i)
    \/ /\ timer # "mapped"
       /\ vcf_irqs[i] \in requested
       /\ isr_pc[i] \in {"idle", "save"}
       /\ ~oops
       /\ oops' = TRUE
       /\ UNCHANGED <<counter, isrVars, nOps, rdVars, vcf_irqs, requested, lp64,
                      life_pc, init_ret, misc_registered, gpio_held, timer, stray>>

Init == InitIsr /\ InitIrqs /\ InitRead /\ InitLoaded

InitWired == InitIsr /\ InitIrqsWired /\ InitRead /\ InitLoaded

\* the module before insmod
InitLife == InitIsr /\ InitUnloaded /\ InitRead

\* the edge handlers and the counter alone
NextIsr ==
    \/ Tick
    \/ \E i \in Channels : vcf_isr(i)

Next ==
    \/ Tick
    \/ \E i \in Channels : vcf_isr(i)
    \/ \E o \in Offsets, c \in Counts : read(o, c)
    \/ \E c \in Counts : write(c)

\* The module as isov_init sets it up.
Spec == Init /\ [][Next]_vars

\* The edge handlers with all five channels' interrupts requested.
SpecWired == InitWired /\ [][NextIsr]_vars

\* insmod and rmmod, with the counter running and edges arriving.
NextLife ==
    \/ isov_init
    \/ isov_exit
    \/ Tick
    \/ \E i \in Channels : Edge(i)

SpecLife == InitLife /\ [][NextLife]_vars

\* A caller reading in a loop while edges arrive: the loop goes on for as long
\* as it is not at its end.
NextLoop ==
    \/ Tick
    \/ \E i \in Channels : vcf_isr(i)
    \/ ReaderLoop

SpecLoop == Init /\ [][NextLoop]_vars /\ WF_vars(ReaderLoop)

\* ------------------------------------------------------------------ claims
\* The completed invocations of channel i: the last one and the one before it.
Done(i) == isr_pc[i] = "idle" /\ Len(isr_log[i]) >= 1
LastRun(i) == isr_log[i][Len(isr_log[i])]
PrevRun(i) == isr_log[i][Len(isr_log[i]) - 1]

\* An invocation ran at one counter value: both of its reads returned it.
RanAt(r) == r.t1 = r.t2

\* The last two invocations of channel i ran at t0 and at t0 + p: this is p.
PairPeriod(i) == Sub32(LastRun(i).t1, PrevRun(i).t1)
Pair(i) ==
    /\ isr_pc[i] = "idle"
    /\ Len(isr_log[i]) >= 2
    /\ RanAt(PrevRun(i))
    /\ RanAt(LastRun(i))

\* C1: after the handler ran for channel i at t0 and again at t0 + p with
\* 0 < p < 1000000, voltages[i] is calib_coeficients[i] / p, truncated.
C1_PeriodToVoltage ==
    \A i \in Channels :
        (/\ Pair(i)
         /\ PairPeriod(i) # ZERO32
         /\ Lt32(PairPeriod(i), 1000000))
        => voltages[i] = calib_coeficients(i) \div Num32(PairPeriod(i))

\* C1's example: edges 1000 ticks apart leave 7692.
C1_Witness ==
    /\ Pair(0)
    /\ PairPeriod(0) = U32Of(1000)
    /\ voltages[0] = 7692

\* C2: an edge whose period is exactly 0 performs no division and leaves
\* voltages[i] as it was.
C2_NoDivisionByZero ==
    \A i \in Channels :
        (Done(i) /\ LastRun(i).own = ZERO32)
        => (~LastRun(i).pub /\ voltages[i] = LastRun(i).v0 /\ ~div0)

\* C3: after the handler ran for channel i at t0 and again at t0 + p with
\* p >= 1000000 (mod 2^32), voltages[i] is what it was before the second
\* edge and last_pulse_time[i] is t0 + p.
C3_StalePeriodKeepsVoltage ==
    \A i \in Channels :
        (Pair(i) /\ ~Lt32(PairPeriod(i), 1000000))
        => (/\ voltages[i] = LastRun(i).v0
            /\ last_pulse_time[i] = LastRun(i).t1)

\* C3's case with a voltage to keep: 7692308 survives an edge 1000000 ticks
\* later.
C3_Witness ==
    /\ Pair(0)
    /\ PairPeriod(0) = U32Of(1000000)
    /\ LastRun(0).v0 = 7692308
    /\ voltages[0] = 7692308
    /\ last_pulse_time[0] = LastRun(0).t1

Called == rd.v0 # <<>>
CalledTwice == rd_prev.v0 # <<>>

\* the first n elements of a sequence
Take(q, n) == SubSeq(q, 1, n)

\* The bytes a call handed to its caller: the first ret of those copied.
Returned(r) == Take(r.out, r.ret)

\* The snapshot of the five values v: the text and its terminating 0.
Snapshot(v) == Format(v) \o <<0>>

\* The values channel i's voltage has held: the initial 0 and every value an
\* edge of channel i has published.
HeldValues(i) ==
    {0} \cup {isr_log[i][k].nv : k \in {j \in 1 .. Len(isr_log[i]) : isr_log[i][j].pub}}
        \cup (IF isr_cur[i].pub THEN {isr_cur[i].nv} ELSE {})

\* C5: the value a read renders for channel i is never torn: it is a value
\* voltages[i] held before an edge or one an edge published.
C5_NoTornVoltage ==
    (Called /\ rd.rendered) =>
        \A i \in Channels : rd.vals[i + 1] \in HeldValues(i)

\* C6: a read at an offset below the rendered length returns exactly
\* min(count, rendered length - offset) bytes, the bytes of the snapshot from
\* that offset on, and advances the caller's cursor by the bytes returned.
C6_ReadReturnsRange ==
    (Called /\ session # <<>> /\ rd.off < Len(session)) =>
        LET want == IF rd.count < Len(session) - rd.off
                    THEN rd.count ELSE Len(session) - rd.off
        IN  /\ rd.ret = want
            /\ Returned(rd) = SubSeq(session, rd.off + 1, rd.off + want)
            /\ offset = rd.off + want

\* C7: a read at an offset at or beyond the rendered length returns 0, the
\* end of the session, and not the "no data" error.
C7_DrainedReadReturnsZero ==
    (Called /\ session # <<>> /\ rd.off >= Len(session)) => rd.ret = 0

\* C8: with the voltages unchanged, a first call at offset 0 that returns k
\* bytes (0 < k < rendered length) and a second call at the cursor the first
\* one left, asking for the rest, return together the bytes of the whole
\* snapshot.
C8_ChunkedRoundTrip ==
    (/\ CalledTwice
     /\ rd_prev.off = 0
     /\ rd_prev.ret > 0
     /\ rd_prev.ret < Len(Snapshot(rd_prev.v0))
     /\ rd.off = rd.cur0
     /\ rd.count >= Len(Snapshot(rd_prev.v0)) - rd_prev.ret
     /\ rd.v0 = rd_prev.v0)
    => (/\ rd.ret > 0
        /\ Returned(rd_prev) \o Returned(rd) = Snapshot(rd_prev.v0))

\* C9: a chunk read at an offset above 0 is served from the rendering the
\* session's read at offset 0 made, whatever the edges did to the voltages
\* since.
C9_SessionImmutable ==
    (/\ Called
     /\ session # <<>>
     /\ rd.off > 0
     /\ rd.ret > 0
     /\ rd.off + rd.ret <= Len(session))
    => Returned(rd) = SubSeq(session, rd.off + 1, rd.off + rd.ret)

\* The value the last edge of channel i among its first n invocations
\* published, 0 when none did.
LatestPublished(i, n) ==
    LET ks == {k \in 1 .. n : isr_log[i][k].pub}
    IN  IF ks = {} THEN 0
        ELSE isr_log[i][CHOOSE k \in ks : \A j \in ks : j <= k].nv

\* C10: a read at offset 0 renders anew: for every channel whose handler is
\* not running, the value rendered is the one published by the channel's
\* most recent edge completed before the read, and the bytes returned are
\* those of that rendering.
C10_FreshReadRendersCurrent ==
    (Called /\ rd.off = 0) =>
        /\ rd.rendered
        /\ \A i \in Channels \ rd.busy0 :
              rd.vals[i + 1] = LatestPublished(i, rd.n0[i + 1])
        /\ session = Snapshot(rd.vals)
        /\ rd.ret > 0 => Returned(rd) = Take(Snapshot(rd.vals), rd.ret)

\* C10's case: a session read to its end, then an edge that published a new
\* voltage, then a read at offset 0 that shows it.
C10_Witness ==
    /\ CalledTwice
    /\ rd_prev.off = 0
    /\ rd_prev.ret = Len(Snapshot(rd_prev.v0))
    /\ rd.off = 0
    /\ rd.busy0 = {}
    /\ rd.n0[1] > rd_prev.n0[1]
    /\ rd.vals[1] = 7692308
    /\ rd_prev.vals[1] = 0
    /\ rd.ret = Len(Snapshot(rd.vals))
    /\ Returned(rd) = Snapshot(rd.vals)

\* isov_init has returned an error.
InitFailed == init_ret # <<>> /\ init_ret # <<0>>

\* C11: when isov_init reports a failure, nothing it acquired before is still
\* held: the misc device is not registered, no GPIO line is held, no irq is
\* requested and the timer is not mapped.
C11_InitFailureReleasesAll ==
    InitFailed =>
        /\ ~misc_registered
        /\ gpio_held = {}
        /\ requested = {}
        /\ timer # "mapped"

\* C12: every call of write returns -EINVAL and leaves every channel's
\* last_pulse_time and voltage and the caller's cursor as they were.
C12_WriteFailsUnchanged ==
    [][wr'.n # wr.n =>
         /\ wr'.ret = -EINVAL
         /\ UNCHANGED <<last_pulse_time, voltages, offset>>]_vars

\* C12's case: a write made after an edge published a voltage and a read
\* moved the cursor.
C12_Witness ==
    /\ wr.n > 0
    /\ wr.ret = -EINVAL
    /\ voltages[0] # 0
    /\ offset # 0

\* t1 - t0 mod 2^32 for t0 in the last 2^20 ticks before the counter wraps
\* and t1 in the first 2^20 after: the ticks from t0 to 2^32, and t1 more.
WrapPeriod(t0, t1) ==
    ((HALF - 1 - t0[1]) * HALF + (HALF - t0[2])) + Num32(t1)

\* The last two invocations of channel i ran at t0 and t1, and the counter
\* wrapped between them.
Wrapped(i) ==
    /\ Pair(i)
    /\ PrevRun(i).t1[1] >= HALF - 16
    /\ LastRun(i).t1[1] < 16

\* C13: for an edge at t0 close to 2^32 and the next edge at t1 < t0, after
\* the counter wrapped, the period computed is (t1 - t0) mod 2^32, and when
\* that is below 1000000 the voltage published is the coefficient divided by it.
C13_WraparoundPeriod ==
    \A i \in Channels :
        Wrapped(i) =>
            LET p == WrapPeriod(PrevRun(i).t1, LastRun(i).t1) IN
            /\ LastRun(i).own = U32Of(p)
            /\ p < 1000000 => voltages[i] = calib_coeficients(i) \div p

\* C13's example: edges at 0xFFFFFFF0 and at 0x00000010 give the period 32
\* and the voltage 7692308 / 32.
C13_Witness ==
    /\ Wrapped(0)
    /\ PrevRun(0).t1 = <<65535, 65520>>
    /\ LastRun(0).t1 = <<0, 16>>
    /\ LastRun(0).own = <<0, 32>>
    /\ voltages[0] = 240384

\* C14: the value an invocation stores in last_pulse_time[i] is the counter
\* value it computed its period from.
C14_SingleTimestamp ==
    \A i \in Channels :
        \A k \in 1 .. Len(isr_log[i]) : isr_log[i][k].t2 = isr_log[i][k].t1

\* C15: a caller that starts at offset 0 and calls read again and again at
\* the cursor the call before left is in the end returned 0.
C15_ReadLoopTerminates == <>(rd.v0 # <<>> /\ rd.ret = 0)

\* C16: a read that returns n >= 0 has copied exactly n bytes to the caller,
\* no more than count, all of them from inside the rendered text.
C16_CopiesExactlyReturned ==
    (Called /\ rd.ret >= 0) =>
        /\ Len(rd.out) = rd.ret
        /\ Len(rd.out) <= rd.count
        /\ session # <<>> => rd.off + Len(rd.out) <= Len(session)

\* C17: an irq is freed only if it is requested and not yet freed, and the
\* timer is unmapped only while it is mapped: no free_irq and no iounmap is
\* a stray release.
C17_ReleasesMatchAcquisitions ==
    \A k \in 1 .. Len(stray) : stray[k].op \notin {"free_irq", "iounmap"}

\* The invocations of vcf_isr begun for channel i.
Edges(i) == Len(isr_log[i]) + (IF isr_pc[i] = "idle" THEN 0 ELSE 1)

\* C18: voltages[i] is 0 until a second edge of channel i: the first edge
\* publishes nothing.
C18_FirstEdgePublishesNothing ==
    \A i \in Channels : Edges(i) <= 1 => voltages[i] = 0

\* C19: whenever voltages[i] holds, wholly or in part, the value an
\* invocation computed, last_pulse_time[i] holds the counter value that
\* invocation stored at line 115.
C19_TimeSavedBeforePublish ==
    \A i \in Channels :
        /\ (isr_pc[i] # "idle" /\ isr_cur[i].pub)
               => last_pulse_time[i] = isr_cur[i].t2
        /\ (Done(i) /\ LastRun(i).pub)
               => last_pulse_time[i] = LastRun(i).t2

\* C19's case: the store of the voltage is under way and last_pulse_time
\* already holds this edge's counter value, not the one of the edge before.
C19_Witness ==
    /\ isr_pc[0] = "hi"
    /\ isr_cur[0].pub
    /\ last_pulse_time[0] = isr_cur[0].t2
    /\ isr_cur[0].t2 # isr_cur[0].lpt0

\* An isov_init in which every acquisition succeeded leaves the irqs as Init
\* has them.
LoadedAsInit ==
    life_pc = "loaded" =>
        /\ vcf_irqs = [i \in Channels |-> IF i = 0 THEN gpio_to_irq(gpio(0)) ELSE -1]
        /\ requested = {gpio_to_irq(gpio(0))}

\* C20: with only channel 0's irq requested, channels 1..4 are never
\* updated: their last_pulse_time and voltage stay 0 and every rendering
\* shows V2..V5 as 0.
C20_UnwiredChannelsFrozen ==
    /\ \A i \in 1 .. 4 : last_pulse_time[i] = ZERO32 /\ voltages[i] = 0
    /\ (Called /\ rd.rendered) =>
           rd.text = Format(<<rd.vals[1], 0, 0, 0, 0>>)

\* C20's case: an edge of channel 0 published a voltage and a read rendered
\* it beside four zeros.
C20_Witness ==
    /\ Called
    /\ rd.rendered
    /\ Len(isr_log[0]) >= 1
    /\ rd.vals = <<7692308, 0, 0, 0, 0>>
    /\ last_pulse_time[0] # ZERO32

====
